---- MODULE Spec2Model ----
(***************************************************************************)
(* The test-run state machine of the integration-test harness: the Store   *)
(* rows of one run (RunMeta, Observation rows "event#...", MissingRecord   *)
(* rows "expectation#NNN-missing"), the scenario's expectations held in    *)
(* the Archive, the wall clock, and the Verifier's two modes               *)
(* (src/app/service/verifier.py) as interleaved invocations.               *)
(*                                                                         *)
(* Every handler is split at its Store reads and writes so that other      *)
(* invocations interleave between them. The boto3 calls of the Verifier    *)
(* succeed in the actions named after its steps; the actions whose names   *)
(* end in Unread or Unwritten are the same steps with a call that raises.  *)
(***************************************************************************)
EXTENDS Integers, Sequences, FiniteSets, TLC

\* ---------------------------------------------------------------- bounds
\* Observation rows per run.
MaxEvents == 2
\* The clock stops advancing after this many minutes.
MaxClock == 30
\* Minutes the clock advances in one step.
TickMinutes == 15
\* Events the Collector archives or attaches for the run.
MaxDeliveries == 2

\* ------------------------------------------------------ program constants
\* timedelta(minutes=15)
TimeoutMinutes == 15

\* Concurrent status invocations (the polling loop, and a retried poll).
Pollers == {"p1"}
\* The status invocations of two drivers polling the same run at once.
ConcurrentPollers == Pollers \cup {"p2"}

\* ------------------------------------------------------------ JSON values
\* A JSON value is null, true, false, a string or a mapping (a Python dict).
Null == [k |-> "null"]
JTrue == [k |-> "true"]
JFalse == [k |-> "false"]
Str(s) == [k |-> "str", v |-> s]
Obj(f) == [k |-> "obj", f |-> f]

\* isinstance(value, dict)
IsDict(value) == value.k = "obj"

\* dict.get(key): None when the key is absent
DictGet(d, key) == IF key \in DOMAIN d.f THEN d.f[key] ELSE Null

\* Python truthiness of a JSON value: None, False and "" are falsy
Truthy(value) == value # Null /\ value # JFalse /\ value # Str("")

\* A walk that returns the value it has reached when that value is no mapping.
RECURSIVE _get_nested_value_KeepsLeaf(_, _)
_get_nested_value_KeepsLeaf(value, parts) ==
    IF parts = <<>> THEN value
    ELSE IF ~IsDict(value) THEN value
    ELSE LET nxt == DictGet(value, Head(parts))
         IN  IF nxt = Null THEN Null
             ELSE _get_nested_value_KeepsLeaf(nxt, Tail(parts))

\* A dot-path is kept split on ".": "detail.jobId" is <<"detail", "jobId">>.
RECURSIVE _get_nested_value(_, _)
_get_nested_value(value, parts) ==
    IF parts = <<>> THEN value
    ELSE IF ~IsDict(value) THEN Null
    ELSE LET nxt == DictGet(value, Head(parts))
         IN  IF nxt = Null THEN Null ELSE _get_nested_value(nxt, Tail(parts))

\* True when every match field has equal values in both objects.
_match_event(expected, observed_event_body, match_fields) ==
    \A i \in 1..Len(match_fields) :
        _get_nested_value(expected, match_fields[i])
            = _get_nested_value(observed_event_body, match_fields[i])

\* ------------------------------------------------------------- timestamps
\* An ISO-8601 string is its instant (minutes) and the tokens that follow the
\* seconds: <<"Z">> for "...T00:15:00Z", <<"+00:00", "Z">> for
\* "...T00:15:00+00:00Z".
\* (now + timedelta(minutes=15)).isoformat(timespec="seconds") + "Z", now aware
SeederTimeoutAt(t) == [t |-> t + TimeoutMinutes, suffix |-> <<"+00:00">> \o <<"Z">>]

\* The same instant written "YYYY-MM-DDTHH:MM:SSZ".
ZuluTimeoutAt(t) == [t |-> t + TimeoutMinutes, suffix |-> <<"Z">>]

NoTime == [t |-> 0, suffix |-> <<>>]

\* datetime.fromisoformat accepts no offset or one "+00:00" offset.
FromIsoFormat(s) ==
    IF s.suffix \in {<<>>, <<"+00:00">>}
    THEN [ok |-> TRUE, t |-> s.t]
    ELSE [ok |-> FALSE, t |-> 0]

\* A trailing "Z" is replaced by "+00:00"; a string fromisoformat rejects
\* yields None (ok = FALSE).
_parse_iso(dt_str) ==
    LET n == Len(dt_str.suffix)
        s == IF n > 0 /\ dt_str.suffix[n] = "Z"
             THEN [dt_str EXCEPT !.suffix = SubSeq(@, 1, n - 1) \o <<"+00:00">>]
             ELSE dt_str
    IN  FromIsoFormat(s)

\* ------------------------------------------------------- events, scenarios
\* A bus envelope {source, detail-type, detail: {jobId}}.
Envelope(source, detailType, jobId) ==
    Obj(("source" :> Str(source)) @@ ("detail-type" :> Str(detailType))
        @@ ("detail" :> Obj("jobId" :> Str(jobId))))

EventBodies ==
    { Envelope("svc.a", "Started", "J1"),
      Envelope("svc.a", "Started", "J2"),
      Envelope("svc.a", "Completed", "J1") }

\* What arrives for the run: an envelope, and whether the Archive holds it
\* (one event arrives whose Archive write failed).
Arrivals ==
    [body : EventBodies, archived : {TRUE}]
        \cup {[body |-> Envelope("svc.a", "Started", "J1"), archived |-> FALSE]}

\* An expectation of expectations.json: the object, and its __match.fields.
Expectation(source, detailType, jobId, fields) ==
    [body |-> Envelope(source, detailType, jobId), fields |-> fields]

\* An expectation that also names its detail type under "detailType", the
\* key the Collector reads.
ExpectationWithDetailType(source, detailType, jobId, fields) ==
    [body |-> Obj(Envelope(source, detailType, jobId).f
                  @@ ("detailType" :> Str(detailType))),
     fields |-> fields]

JobIdPath == <<"detail", "jobId">>

Scenarios ==
    { <<>>,
      << Expectation("svc.a", "Started", "J1", <<JobIdPath>>) >>,
      << Expectation("svc.a", "Started", "J1", <<JobIdPath>>),
         Expectation("svc.a", "Completed", "J1", <<JobIdPath>>) >>,
      << Expectation("svc.a", "Started", "J1", <<JobIdPath>>),
         Expectation("svc.a", "Started", "J1", <<JobIdPath>>) >>,
      << ExpectationWithDetailType("svc.a", "Started", "J1", <<JobIdPath>>) >>,
      << Expectation("svc.a", "Started", "J1", <<>>) >> }

\* ------------------------------------------------------------------ state
VARIABLES
    now,            \* the wall clock, in minutes
    meta,           \* the RunMeta row (pk run#<id>, sk run#meta), or NoMeta
    expectations,   \* seed/services/<serviceName>/expectations.json
    events,         \* the rows with sk event#..., in sort-key order
    missing,        \* the indices idx with a row expectation#<idx>-missing
    poll,           \* the status invocations, by poller
    ver,            \* the verify invocation
    hist,           \* what earlier invocations did (for the properties)
    seed,           \* the seed invocation
    bus,            \* the entries put_events accepted, in order
    items,          \* the rows with sk expectation#<id>, in sort-key order
    col,            \* the Collector invocation
    raw,            \* the objects under events/testruns/<runId>/ in the Archive
    col2            \* a Collector invocation concurrent with col

vars == <<now, meta, expectations, events, missing, poll, ver, hist,
          seed, bus, items, col, raw, col2>>

\* What the Seeder and the Collector read and write besides RunMeta.
ingest == <<seed, bus, items, col, raw, col2>>

NoMeta == [exists |-> FALSE, status |-> "none", timeoutAt |-> NoTime,
           observedCount |-> 0, serviceName |-> "none"]

PollIdle == [pc |-> "idle", current_status |-> "none", observed_count |-> 0,
             expected_count |-> 0, sampled |-> 0, status |-> "none",
             unread |-> FALSE]

VerIdle == [pc |-> "idle", idx |-> 0, current_status |-> "none",
            matched_count |-> 0, missing_count |-> 0, unexpected_count |-> 0,
            matched_event_keys |-> <<>>, scanned |-> 0, run_status |-> "none",
            started_with |-> 0, after_timeout |-> FALSE,
            marks_before |-> <<>>, missing_before |-> {}]

NoVerdict == [has |-> FALSE, run_status |-> "none", matched_count |-> 0,
              missing_count |-> 0, unexpected_count |-> 0, nobs |-> 0]

\* The seed invocation before it starts.
SeedIdle == [pc |-> "idle", raw_service_name |-> Null, requested |-> "none",
             effective |-> "none", files |-> <<>>, events_defs |-> <<>>,
             published_count |-> 0, failed_at |-> 0, error |-> "none",
             result |-> Null]

\* The Collector invocation before it starts.
ColIdle == [pc |-> "idle", event |-> Null, s3_key |-> FALSE, chosen |-> 0,
            is_first |-> FALSE, store_failed |-> FALSE, rows_before |-> 0,
            result |-> [ignored |-> FALSE, attached |-> FALSE,
                        reason |-> "none"]]

Init ==
    /\ now = 0
    /\ meta = NoMeta
    /\ expectations \in Scenarios
    /\ events = <<>>
    /\ missing = {}
    /\ poll = [p \in ConcurrentPollers |-> PollIdle]
    /\ ver = VerIdle
    /\ hist = [released |-> FALSE, timedOut |-> FALSE, bothSampled |-> FALSE,
               storeFailed |-> FALSE,
               last |-> NoVerdict]
    /\ seed = SeedIdle
    /\ bus = <<>>
    /\ items = <<>>
    /\ col = ColIdle
    /\ raw = 0
    /\ col2 = ColIdle

\* ------------------------------------------------------------ environment
\* Clock readings are relative to the creation of the run: time that passes
\* before RunMeta exists changes nothing any handler reads.
Tick ==
    /\ meta.exists
    /\ now + TickMinutes <= MaxClock
    /\ now' = now + TickMinutes
    /\ UNCHANGED <<meta, expectations, events, missing, poll, ver, hist>>
    /\ UNCHANGED ingest

\* table.put_item(Item=meta_item): status running, observedCount 0, and
\* timeoutAt 15 minutes ahead, in the format the Seeder builds or as
\* "...Z".
PutRunMeta ==
    /\ ~meta.exists
    /\ \E ts \in {SeederTimeoutAt(now), ZuluTimeoutAt(now)} :
         meta' = [exists |-> TRUE, status |-> "running", timeoutAt |-> ts,
                  observedCount |-> 0, serviceName |-> "all"]
    /\ UNCHANGED <<now, expectations, events, missing, poll, ver, hist>>
    /\ UNCHANGED ingest

\* One Observation row is written for an event of the run: sk
\* event#<timestamp>-<eventId> sorts after the rows already there, status new;
\* rawS3Key is null when the Archive write failed.
PutObservation ==
    /\ meta.exists
    /\ Len(events) < MaxEvents
    /\ \E a \in Arrivals :
         events' = Append(events,
                     [detailType |-> DictGet(a.body, "detail-type"),
                      source |-> DictGet(a.body, "source"),
                      rawS3Key |-> a.archived,
                      body |-> a.body,
                      status |-> "new",
                      expectedOrder |-> -1])
    /\ UNCHANGED <<now, meta, expectations, missing, poll, ver, hist>>
    /\ UNCHANGED ingest

\* ------------------------------------------------------------ status mode
\* The positions of the rows with sk beginning event#.
EventRows == 1..Len(events)

\* A status invocation that puts a RunMeta row when it finds none.
StatusLoad_CreatesMeta(p) ==
    /\ poll[p].pc = "idle"
    /\ poll' = [poll EXCEPT ![p] =
                 IF meta.exists
                 THEN [PollIdle EXCEPT !.pc = "loaded",
                                       !.current_status = meta.status]
                 ELSE [PollIdle EXCEPT !.status = "unknown"]]
    /\ meta' = IF meta.exists THEN meta
               ELSE [exists |-> TRUE, status |-> "running",
                     timeoutAt |-> ZuluTimeoutAt(now), observedCount |-> 0,
                     serviceName |-> "all"]
    /\ UNCHANGED <<now, expectations, events, missing, ver, hist>>
    /\ UNCHANGED ingest

\* _get_run_meta, and the early return {"status": "unknown"}.
StatusLoad(p) ==
    /\ poll[p].pc = "idle"
    /\ poll' = [poll EXCEPT ![p] =
                 IF meta.exists
                 THEN [PollIdle EXCEPT !.pc = "loaded",
                                       !.current_status = meta.status]
                 ELSE [PollIdle EXCEPT !.status = "unknown"]]
    /\ UNCHANGED <<now, meta, expectations, events, missing, ver, hist>>
    /\ UNCHANGED ingest

\* The timeout check of the status decision: timeoutAt parses and is reached.
TimeoutReached(timeout_at_str, sampled) ==
    LET timeout_at == _parse_iso(timeout_at_str)
    IN  timeout_at.ok /\ sampled >= timeout_at.t

\* The ready check without the guard on an empty expectation list.
AllObserved_EmptyListReady(observed_count, expected_count) ==
    observed_count >= expected_count

\* The ready check of the status decision.
AllObserved(observed_count, expected_count) ==
    observed_count >= expected_count /\ expected_count > 0

\* The status the poll returns, from what it read.
StatusDecision(timeout_at_str, sampled, observed_count, expected_count) ==
    IF TimeoutReached(timeout_at_str, sampled) THEN "timeout"
    ELSE IF AllObserved(observed_count, expected_count) THEN "ready"
    ELSE "running"

\* expected_count = len(expectations); observed_count = len(query event#);
\* now = datetime.now(timezone.utc); the decision.
StatusObserve(p) ==
    /\ poll[p].pc = "loaded"
    /\ poll' = [poll EXCEPT ![p] =
                 [@ EXCEPT !.pc = "decided",
                           !.expected_count = Len(expectations),
                           !.observed_count = Len(events),
                           !.sampled = now,
                           !.status = StatusDecision(meta.timeoutAt, now,
                                          Len(events), Len(expectations))]]
    /\ UNCHANGED <<now, meta, expectations, events, missing, ver, hist>>
    /\ UNCHANGED ingest

\* Whether the poll issues update_item SET #s = <status>.
StatusWrites(status, current_status) ==
    status \in {"timeout", "ready"} /\ current_status # status

\* Status invocation p is in flight and sampled now >= timeoutAt.
SampledAfterTimeout(p) ==
    poll[p].pc = "decided" /\ poll[p].sampled >= meta.timeoutAt.t

\* The update_item of the decision (an unconditional SET) and the return.
StatusCommit(p) ==
    /\ poll[p].pc = "decided"
    /\ meta' = IF StatusWrites(poll[p].status, poll[p].current_status)
               THEN [meta EXCEPT !.status = poll[p].status]
               ELSE meta
    /\ hist' = [hist EXCEPT
                 !.released = @ \/ poll[p].status \in {"timeout", "ready"},
                 !.timedOut = @ \/ (poll[p].status = "timeout"
                     /\ StatusWrites(poll[p].status, poll[p].current_status)),
                 !.bothSampled = @ \/ (SampledAfterTimeout(p)
                     /\ \E q \in ConcurrentPollers \ {p} :
                            SampledAfterTimeout(q))]
    /\ poll' = [poll EXCEPT ![p] = PollIdle]
    /\ UNCHANGED <<now, expectations, events, missing, ver>>
    /\ UNCHANGED ingest

\* ------------------------------------------------------------ verify mode
\* table.query(pk, sk begins_with event#, detailType = .. AND source = ..):
\* the positions of the rows, in sort-key order.
RECURSIVE FilterRows(_, _, _)
FilterRows(k, detail_type, source) ==
    IF k > Len(events) THEN <<>>
    ELSE (IF events[k].detailType = detail_type /\ events[k].source = source
          THEN <<k>> ELSE <<>>) \o FilterRows(k + 1, detail_type, source)

_get_observed_events(detail_type, source) == FilterRows(1, detail_type, source)

\* s3_client.get_object on rawS3Key: the archived envelope.
_download_event_from_s3(event_meta) == event_meta.body

\* Whether one candidate row is the match: it has a rawS3Key, its body has the
\* expectation's detail-type and source, and the match fields agree.
CandidateMatches(expected, event_meta, match_fields) ==
    /\ event_meta.rawS3Key
    /\ LET event_body == _download_event_from_s3(event_meta)
       IN  /\ DictGet(event_body, "detail-type") = DictGet(expected, "detail-type")
           /\ DictGet(event_body, "source") = DictGet(expected, "source")
           /\ _match_event(expected, event_body, match_fields)

\* The first candidate, in the order of the list, that matches; 0 for None.
RECURSIVE FirstMatch(_, _, _, _)
FirstMatch(expected, observed_events, match_fields, i) ==
    IF i > Len(observed_events) THEN 0
    ELSE IF CandidateMatches(expected, events[observed_events[i]], match_fields)
         THEN observed_events[i]
         ELSE FirstMatch(expected, observed_events, match_fields, i + 1)

\* A search that looks at the first candidate only.
_find_matching_event_FirstOnly(expected, observed_events, match_fields) ==
    IF observed_events # <<>>
       /\ CandidateMatches(expected, events[observed_events[1]], match_fields)
    THEN observed_events[1]
    ELSE 0

_find_matching_event(expected, observed_events, match_fields) ==
    FirstMatch(expected, observed_events, match_fields, 1)

\* The verifier's marks on the rows: status, and expectedOrder (-1: not set).
RowMarks == [k \in EventRows |->
               [status |-> events[k].status,
                expectedOrder |-> events[k].expectedOrder]]

\* _get_run_meta; raise ValueError when there is none; load the expectations.
\* (started_with, after_timeout, marks_before and missing_before record what
\* the Store held when the invocation began.)
\* "Verify mode (called once when ready/timeout)": the driver invokes verify
\* after a status poll has returned ready or timeout; a retry invokes it again.
VerifyBegin ==
    /\ ver.pc \in {"idle", "done", "raised"}
    /\ ~meta.exists \/ hist.released
    /\ ver' = IF meta.exists
              THEN [VerIdle EXCEPT !.pc = "matching",
                                   !.current_status = meta.status,
                                   !.started_with = Len(events),
                                   !.after_timeout = hist.timedOut,
                                   !.marks_before = RowMarks,
                                   !.missing_before = missing]
              ELSE [VerIdle EXCEPT !.pc = "raised"]
    /\ UNCHANGED <<now, meta, expectations, events, missing, poll, hist>>
    /\ UNCHANGED ingest

\* An expectation without detail-type or without source is skipped.
Skipped(expected) ==
    ~Truthy(DictGet(expected, "detail-type")) \/ ~Truthy(DictGet(expected, "source"))

\* One pass of "for idx, expected in enumerate(expectations)": the query, the
\* match, and the update_item of the matched row or the put_item of the
\* MissingRecord.
VerifyExpectation ==
    /\ ver.pc = "matching"
    /\ ver.idx < Len(expectations)
    /\ LET expected == expectations[ver.idx + 1].body
           match_fields == expectations[ver.idx + 1].fields
           observed_events == _get_observed_events(
                                  DictGet(expected, "detail-type"),
                                  DictGet(expected, "source"))
           matched_event == _find_matching_event(expected, observed_events,
                                                 match_fields)
       IN  IF Skipped(expected)
           THEN /\ ver' = [ver EXCEPT !.idx = @ + 1]
                /\ UNCHANGED <<events, missing>>
           ELSE IF matched_event # 0
           THEN /\ ver' = [ver EXCEPT
                             !.idx = @ + 1,
                             !.matched_count = @ + 1,
                             !.matched_event_keys = Append(@, matched_event)]
                /\ events' = [events EXCEPT
                                ![matched_event].status = "matched",
                                ![matched_event].expectedOrder = ver.idx]
                /\ UNCHANGED missing
           ELSE /\ ver' = [ver EXCEPT !.idx = @ + 1, !.missing_count = @ + 1]
                /\ missing' = missing \cup {ver.idx}
                /\ UNCHANGED events
    /\ UNCHANGED <<now, meta, expectations, poll, hist>>
    /\ UNCHANGED ingest

\* event_key in matched_event_keys
InKeys(k, matched_event_keys) ==
    \E i \in 1..Len(matched_event_keys) : matched_event_keys[i] = k

\* The re-scan passing over the rows that have no rawS3Key.
Unmatched_ArchivedOnly(matched_event_keys) ==
    {k \in 1..Len(events) :
        events[k].rawS3Key
        /\ ~\E i \in 1..Len(matched_event_keys) : matched_event_keys[i] = k}

\* The rows the re-scan marks unexpected: those whose key is not among
\* matched_event_keys.
Unmatched(matched_event_keys) ==
    {k \in EventRows : ~InKeys(k, matched_event_keys)}

\* The re-scan of the event# rows after the loop, and the update_item of every
\* row not matched in this pass.
VerifyRescan ==
    /\ ver.pc = "matching"
    /\ ver.idx = Len(expectations)
    /\ LET unexpected == Unmatched(ver.matched_event_keys)
       IN  /\ events' = [k \in EventRows |->
                           IF k \in unexpected
                           THEN [events[k] EXCEPT !.status = "unexpected"]
                           ELSE events[k]]
           /\ ver' = [ver EXCEPT !.pc = "judging",
                                 !.scanned = Len(events),
                                 !.unexpected_count = Cardinality(unexpected)]
    /\ UNCHANGED <<now, meta, expectations, missing, poll, hist>>
    /\ UNCHANGED ingest

\* The verdict with the timeout branch left out.
RunStatus_TimeoutIgnored(current_status, missing_count, unexpected_count) ==
    IF missing_count > 0 \/ unexpected_count > 0 THEN "failed" ELSE "passed"

\* "Determine run status"
RunStatus(current_status, missing_count, unexpected_count) ==
    IF current_status = "timeout" THEN "failed"
    ELSE IF missing_count > 0 \/ unexpected_count > 0 THEN "failed"
    ELSE "passed"

\* The update_item of RunMeta (SET #s = run_status) and the return.
VerifyFinish ==
    /\ ver.pc = "judging"
    /\ LET run_status == RunStatus(ver.current_status, ver.missing_count,
                                   ver.unexpected_count)
       IN  /\ meta' = [meta EXCEPT !.status = run_status]
           /\ ver' = [ver EXCEPT !.pc = "done", !.run_status = run_status]
           /\ hist' = [hist EXCEPT !.last =
                         [has |-> TRUE,
                          run_status |-> run_status,
                          matched_count |-> ver.matched_count,
                          missing_count |-> ver.missing_count,
                          unexpected_count |-> ver.unexpected_count,
                          nobs |-> IF Len(events) = ver.started_with
                                   THEN Len(events) ELSE -1]]
    /\ UNCHANGED <<now, expectations, events, missing, poll>>
    /\ UNCHANGED ingest

\* ------------------------------------------- verifier calls that raise
\* StatusObserve when a read raises: the load of expectations.json (then
\* expected_count stays 0), the query of the event# rows (then
\* observed_count = 0), or both. The exception is printed.
StatusObserveUnread(p) ==
    /\ poll[p].pc = "loaded"
    /\ \E loaded, counted \in BOOLEAN :
         /\ ~(loaded /\ counted)
         /\ LET expected_count == IF loaded THEN Len(expectations) ELSE 0
                observed_count == IF counted THEN Len(events) ELSE 0
            IN  poll' = [poll EXCEPT ![p] =
                          [@ EXCEPT !.pc = "decided",
                                    !.expected_count = expected_count,
                                    !.observed_count = observed_count,
                                    !.sampled = now,
                                    !.unread = TRUE,
                                    !.status = StatusDecision(meta.timeoutAt,
                                        now, observed_count, expected_count)]]
    /\ UNCHANGED <<now, meta, expectations, events, missing, ver, hist>>
    /\ UNCHANGED ingest

\* StatusCommit when the update_item raises: the exception is printed and
\* the decision is returned.
StatusCommitUnwritten(p) ==
    /\ poll[p].pc = "decided"
    /\ StatusWrites(poll[p].status, poll[p].current_status)
    /\ hist' = [hist EXCEPT
                 !.released = @ \/ poll[p].status \in {"timeout", "ready"}]
    /\ poll' = [poll EXCEPT ![p] = PollIdle]
    /\ UNCHANGED <<now, meta, expectations, events, missing, ver>>
    /\ UNCHANGED ingest

\* VerifyExpectation when a call raises: the query of _get_observed_events
\* (it returns []), or the update_item of the matched row or the put_item of
\* the MissingRecord (the exception is printed after the count was raised).
VerifyExpectationUnwritten ==
    /\ ver.pc = "matching"
    /\ ver.idx < Len(expectations)
    /\ ~Skipped(expectations[ver.idx + 1].body)
    /\ \E queried \in BOOLEAN :
         LET expected == expectations[ver.idx + 1].body
             match_fields == expectations[ver.idx + 1].fields
             observed_events == IF queried
                                THEN _get_observed_events(
                                         DictGet(expected, "detail-type"),
                                         DictGet(expected, "source"))
                                ELSE <<>>
             matched_event == _find_matching_event(expected, observed_events,
                                                   match_fields)
         IN  ver' = IF matched_event # 0
                    THEN [ver EXCEPT
                            !.idx = @ + 1,
                            !.matched_count = @ + 1,
                            !.matched_event_keys = Append(@, matched_event)]
                    ELSE [ver EXCEPT !.idx = @ + 1, !.missing_count = @ + 1]
    /\ UNCHANGED <<now, meta, expectations, events, missing, poll, hist>>
    /\ UNCHANGED ingest

\* VerifyRescan when a call raises: the query of the event# rows (then
\* unexpected_count stays as counted, 0), or the update_item of some of the
\* rows (they are counted and keep their status).
VerifyRescanUnwritten ==
    /\ ver.pc = "matching"
    /\ ver.idx = Len(expectations)
    /\ \E queried \in BOOLEAN :
         LET unexpected == IF queried THEN Unmatched(ver.matched_event_keys)
                           ELSE {}
         IN  /\ queried => unexpected # {}
             /\ \E written \in SUBSET unexpected :
                  /\ written # unexpected \/ ~queried
                  /\ events' = [k \in EventRows |->
                                  IF k \in written
                                  THEN [events[k] EXCEPT !.status = "unexpected"]
                                  ELSE events[k]]
             /\ ver' = [ver EXCEPT
                          !.pc = "judging",
                          !.scanned = IF queried THEN Len(events) ELSE 0,
                          !.unexpected_count = Cardinality(unexpected)]
    /\ UNCHANGED <<now, meta, expectations, missing, poll, hist>>
    /\ UNCHANGED ingest

\* VerifyFinish when the update_item of RunMeta raises: the exception is
\* printed and the verdict is returned.
VerifyFinishUnwritten ==
    /\ ver.pc = "judging"
    /\ LET run_status == RunStatus(ver.current_status, ver.missing_count,
                                   ver.unexpected_count)
       IN  /\ ver' = [ver EXCEPT !.pc = "done", !.run_status = run_status]
           /\ hist' = [hist EXCEPT !.last =
                         [has |-> TRUE,
                          run_status |-> run_status,
                          matched_count |-> ver.matched_count,
                          missing_count |-> ver.missing_count,
                          unexpected_count |-> ver.unexpected_count,
                          nobs |-> IF Len(events) = ver.started_with
                                   THEN Len(events) ELSE -1]]
    /\ UNCHANGED <<now, meta, expectations, events, missing, poll>>
    /\ UNCHANGED ingest

\* ----------------------------------------------------------------- seeder
\* event.get("serviceName"): absent, or a string.
RawServiceNames == {Null, Str("SvcA"), Str("ALL")}

\* str.lower() on the names that occur.
Lower(name) ==
    CASE name = "SvcA" -> "svca"
      [] name = "ALL" -> "all"
      [] OTHER -> name

_resolve_service_name(raw_service_name) ==
    IF raw_service_name = Null \/ Lower(raw_service_name.v) = "all"
    THEN "all"
    ELSE Lower(raw_service_name.v)

\* What get_object and json.loads give for one scenario file: a JSON array,
\* NoSuchKey, another ClientError, or JSON that is no array.
FileOutcomes == {"list", "absent", "denied", "notarray"}

ScenarioFileNames == {"events", "expectations"}

\* The scenario files in the Archive, by service folder.
ScenarioFiles == [{"svca", "all"} -> [ScenarioFileNames -> FileOutcomes]]

\* events.json then expectations.json of one folder, as two
\* _load_s3_json_list calls in a row: "list" when both load, else the outcome
\* of the first that does not.
LoadPair(files, service_name) ==
    IF files[service_name]["events"] # "list"
    THEN files[service_name]["events"]
    ELSE files[service_name]["expectations"]

\* The exception a failed load raises.
LoadError(outcome) == IF outcome = "notarray" THEN "ValueError" ELSE "ClientError"

\* A load that falls back to an empty "all" scenario when nothing loads.
_load_service_seed_definitions_NeverFails(files, service_name) ==
    IF LoadPair(files, service_name) = "list"
    THEN [ok |-> TRUE, effective |-> service_name, error |-> "none"]
    ELSE [ok |-> TRUE, effective |-> "all", error |-> "none"]

\* Returns (events, expectations, effective_service_name), or raises.
_load_service_seed_definitions(files, service_name) ==
    LET requested == LoadPair(files, service_name)
        fallback == LoadPair(files, "all")
    IN  IF requested = "list"
        THEN [ok |-> TRUE, effective |-> service_name, error |-> "none"]
        ELSE IF requested # "absent"
        THEN [ok |-> FALSE, effective |-> "none", error |-> LoadError(requested)]
        ELSE IF fallback = "list"
        THEN [ok |-> TRUE, effective |-> "all", error |-> "none"]
        ELSE [ok |-> FALSE, effective |-> "none", error |-> LoadError(fallback)]

\* Whether the load read this file: expectations.json is read after
\* events.json loaded, the "all" folder after the requested one was absent.
WasRead(files, service_name, folder, file) ==
    LET inOrder == file = "events" \/ files[folder]["events"] = "list"
    IN  IF folder = service_name THEN inOrder
        ELSE folder = "all" /\ LoadPair(files, service_name) = "absent" /\ inOrder

\* The files with those the load never read left open.
FilesRead(files, service_name) ==
    [folder \in {"svca", "all"} |->
        [file \in ScenarioFileNames |->
            IF WasRead(files, service_name, folder, file)
            THEN files[folder][file] ELSE "unread"]]

\* An event definition of events.json, with the keys the Seeder reads.
EventDef(source, detailType, jobId) ==
    Obj(("Source" :> Str(source)) @@ ("DetailType" :> Str(detailType))
        @@ ("Detail" :> Obj("jobId" :> Str(jobId))))

\* The events.json the scenario may hold.
EventScenarios ==
    { <<>>,
      << EventDef("svc.a", "Started", "J1") >>,
      << EventDef("svc.a", "Started", "J1"),
         EventDef("svc.a", "Completed", "J1") >> }

\* detail.setdefault(...) of the tracing fields, and the put_events entry.
PublishedEntry(ev, service_name) ==
    [Source |-> DictGet(ev, "Source"),
     DetailType |-> DictGet(ev, "DetailType"),
     Detail |-> Obj(DictGet(ev, "Detail").f
                    @@ ("testRunId" :> Str("it-1"))
                    @@ ("serviceName" :> Str(service_name))
                    @@ ("testMode" :> JTrue))]

\* What put_events does with one entry: accepts it, reports it failed, or
\* raises.
PutEventsResponses ==
    { [raised |-> FALSE, FailedEntryCount |-> 0],
      [raised |-> FALSE, FailedEntryCount |-> 1],
      [raised |-> TRUE, FailedEntryCount |-> 0] }

\* A loop that does not look at FailedEntryCount.
PublishFailed_Unchecked(resp) == FALSE

\* failed = resp.get("FailedEntryCount", 0); if failed: raise RuntimeError
PublishFailed(resp) == resp.FailedEntryCount # 0

\* The rows _write_expectations puts: sk expectation#<idx:03d>, expected = the
\* expectation object, no observedEvents attribute yet.
ExpectationItems(expectation_defs) ==
    [i \in 1..Len(expectation_defs) |->
        [sk |-> i, expected |-> expectation_defs[i], observedEvents |-> <<>>]]

\* datetime.timezone, where the name datetime is bound by
\* "from datetime import datetime, timedelta" to the class: whether that
\* class has an attribute timezone. It has none (AttributeError).
DatetimeHasTimezone == FALSE

\* handler, up to the loaded scenario: the service name, and
\* _load_service_seed_definitions on the files the Archive holds.
SeedLoad ==
    /\ seed.pc = "idle"
    /\ \E raw_service_name \in RawServiceNames, files \in ScenarioFiles,
          events_defs \in EventScenarios :
         LET requested == _resolve_service_name(raw_service_name)
             loaded == _load_service_seed_definitions(files, requested)
         IN  seed' = [seed EXCEPT
                        !.raw_service_name = raw_service_name,
                        !.requested = requested,
                        !.files = FilesRead(files, requested),
                        !.pc = IF loaded.ok THEN "publishing" ELSE "raised",
                        !.effective = loaded.effective,
                        !.events_defs = IF loaded.ok THEN events_defs ELSE <<>>,
                        !.error = loaded.error]
    /\ UNCHANGED <<now, meta, expectations, events, missing, poll, ver, hist>>
    /\ UNCHANGED <<bus, items, col, raw, col2>>

\* One pass of the loop of _publish_test_events: put_events of the next
\* event definition.
SeedPublish ==
    /\ seed.pc = "publishing"
    /\ seed.published_count < Len(seed.events_defs)
    /\ \E resp \in PutEventsResponses :
         LET ev == seed.events_defs[seed.published_count + 1]
             broke == resp.raised \/ resp.FailedEntryCount # 0
             failed_at == IF broke /\ seed.failed_at = 0
                          THEN seed.published_count + 1 ELSE seed.failed_at
         IN  IF resp.raised
             THEN /\ seed' = [seed EXCEPT !.pc = "raised",
                                          !.error = "ClientError",
                                          !.failed_at = failed_at]
                  /\ UNCHANGED bus
             ELSE IF PublishFailed(resp)
             THEN /\ seed' = [seed EXCEPT !.pc = "raised",
                                          !.error = "RuntimeError",
                                          !.failed_at = failed_at]
                  /\ UNCHANGED bus
             ELSE /\ seed' = [seed EXCEPT !.published_count = @ + 1,
                                          !.failed_at = failed_at]
                  /\ bus' = IF resp.FailedEntryCount = 0
                            THEN Append(bus, PublishedEntry(ev, seed.effective))
                            ELSE bus
    /\ UNCHANGED <<now, meta, expectations, events, missing, poll, ver, hist>>
    /\ UNCHANGED <<items, col, raw, col2>>

\* _write_expectations, after the last event was published: one row per
\* expectation of the effective service's expectations.json.
SeedWriteExpectations ==
    /\ seed.pc = "publishing"
    /\ seed.published_count = Len(seed.events_defs)
    /\ items' = ExpectationItems(expectations)
    /\ seed' = [seed EXCEPT !.pc = "written"]
    /\ UNCHANGED <<now, meta, expectations, events, missing, poll, ver, hist>>
    /\ UNCHANGED <<bus, col, raw, col2>>

\* The end of handler: now = datetime.now(tz=datetime.timezone.utc), the
\* put_item of meta_item and the return.
SeedFinish ==
    /\ seed.pc = "written"
    /\ IF ~DatetimeHasTimezone
       THEN /\ seed' = [seed EXCEPT !.pc = "raised", !.error = "AttributeError"]
            /\ UNCHANGED meta
       ELSE /\ meta' = [exists |-> TRUE, status |-> "running",
                        timeoutAt |-> SeederTimeoutAt(now),
                        observedCount |-> 0, serviceName |-> seed.effective]
            /\ seed' = [seed EXCEPT
                          !.pc = "returned",
                          !.result = [testRunId |-> "it-1",
                                      serviceName |-> seed.effective,
                                      startedAt |-> [t |-> now, suffix |-> <<"Z">>],
                                      timeoutAt |-> SeederTimeoutAt(now)]]
    /\ UNCHANGED <<now, expectations, events, missing, poll, ver, hist>>
    /\ UNCHANGED <<bus, items, col, raw, col2>>

SeedStep ==
    \/ SeedLoad
    \/ SeedPublish
    \/ SeedWriteExpectations
    \/ SeedFinish

\* -------------------------------------------------------------- collector
\* A bus envelope as the Collector receives it.
Delivery(id, detailType, detail) ==
    Obj(("id" :> Str(id)) @@ ("source" :> Str("svc.a"))
        @@ ("detail-type" :> Str(detailType)) @@ ("detail" :> Obj(detail)))

\* The events delivered: three of the run with testMode true (two of them of
\* the same detail type, one carrying jobId J1), one without testRunId, one
\* of the run without testMode.
Deliveries ==
    { Delivery("e1", "Started", ("testRunId" :> Str("it-1")) @@ ("testMode" :> JTrue)
                                @@ ("jobId" :> Str("J1"))),
      Delivery("e2", "Completed", ("testRunId" :> Str("it-1")) @@ ("testMode" :> JTrue)),
      Delivery("e3", "Started", ("jobId" :> Str("J1"))),
      Delivery("e4", "Started", ("testRunId" :> Str("it-1"))),
      Delivery("e5", "Started", ("testRunId" :> Str("it-1")) @@ ("testMode" :> JTrue)) }

\* The entries of observedEvents over all expectation rows.
RECURSIVE ObservedTotal(_)
ObservedTotal(k) ==
    IF k = 0 THEN 0 ELSE Len(items[k].observedEvents) + ObservedTotal(k - 1)

\* expected.get("detailType") != detail_type
DetailTypeDiffers(exp_item, detail_type) ==
    DictGet(exp_item.expected.body, "detailType") # detail_type

\* The first row of that detail type without observedEvents, else the first
\* row of that detail type, else 0 (None).
_find_expectation_for_event(detail_type) ==
    LET same == {i \in 1..Len(items) : ~DetailTypeDiffers(items[i], detail_type)}
        empty == {i \in same : items[i].observedEvents = <<>>}
        Min(S) == CHOOSE i \in S : \A j \in S : i <= j
    IN  IF empty # {} THEN Min(empty)
        ELSE IF same # {} THEN Min(same)
        ELSE 0

\* The result of an invocation that returns.
ColResult(ignored, attached, reason) ==
    [ignored |-> ignored, attached |-> attached, reason |-> reason]

\* handler, up to _get_run_meta, for an invocation whose state is c (cn after
\* the step) and an event among those offered: the three early returns, or
\* the event is accepted.
BeginOf(c, cn, offered) ==
    /\ c.pc \in {"idle", "returned"}
    /\ raw < MaxDeliveries
    /\ ObservedTotal(Len(items)) < MaxDeliveries
    /\ \E event \in offered :
         LET detail == DictGet(event, "detail")
             reason == IF ~Truthy(DictGet(detail, "testRunId"))
                       THEN "no_testRunId"
                       ELSE IF ~Truthy(DictGet(detail, "testMode"))
                       THEN "testMode_not_true"
                       ELSE IF ~meta.exists THEN "no_run_meta"
                       ELSE "none"
         IN  cn = IF reason # "none"
                  THEN [ColIdle EXCEPT !.pc = "returned", !.event = event,
                                       !.rows_before = Len(events),
                                       !.result = ColResult(TRUE, FALSE, reason)]
                  ELSE [ColIdle EXCEPT !.pc = "accepted", !.event = event,
                                       !.rows_before = Len(events)]
    /\ UNCHANGED <<now, meta, expectations, events, missing, poll, ver, hist>>
    /\ UNCHANGED <<seed, bus, items, raw>>

\* _store_event_payload: put_object succeeds and the key is returned, or it
\* raises and "" is returned.
ArchiveOf(c, cn) ==
    /\ c.pc = "accepted"
    /\ \E stored \in BOOLEAN :
         /\ raw' = IF stored THEN raw + 1 ELSE raw
         /\ cn = [c EXCEPT !.pc = "archived", !.s3_key = stored]
    /\ UNCHANGED <<now, meta, expectations, events, missing, poll, ver, hist>>
    /\ UNCHANGED <<seed, bus, items>>

\* _find_expectation_for_event, and the return when no row is found.
FindOf(c, cn) ==
    /\ c.pc = "archived"
    /\ LET expectation_item ==
              _find_expectation_for_event(DictGet(c.event, "detail-type"))
       IN  cn = IF expectation_item = 0
                THEN [c EXCEPT
                        !.pc = "returned",
                        !.result = ColResult(FALSE, FALSE,
                                             "no_matching_expectation")]
                ELSE [c EXCEPT
                        !.pc = "found",
                        !.chosen = expectation_item,
                        !.is_first =
                            items[expectation_item].observedEvents = <<>>]
    /\ UNCHANGED <<now, meta, expectations, events, missing, poll, ver, hist>>
    /\ UNCHANGED <<seed, bus, items, raw>>

\* The entry appended to observedEvents.
NewObserved(event, s3_key) ==
    [eventId |-> DictGet(event, "id"),
     detailType |-> DictGet(event, "detail-type"),
     rawS3Key |-> IF s3_key THEN Str("key") ELSE Null]

\* update_item of the expectation row (list_append), and the return with the
\* error when it raises.
AppendOf(c, cn) ==
    /\ c.pc = "found"
    /\ \E written \in BOOLEAN :
         /\ items' = IF written
                     THEN [items EXCEPT ![c.chosen].observedEvents =
                             Append(@, NewObserved(c.event, c.s3_key))]
                     ELSE items
         /\ cn = IF ~written
                 THEN [c EXCEPT !.pc = "returned",
                                !.store_failed = TRUE,
                                !.result = ColResult(FALSE, FALSE, "error")]
                 ELSE IF c.is_first
                 THEN [c EXCEPT !.pc = "appended"]
                 ELSE [c EXCEPT !.pc = "returned",
                                !.result = ColResult(FALSE, TRUE, "none")]
         /\ hist' = [hist EXCEPT !.storeFailed = @ \/ ~written]
    /\ UNCHANGED <<now, meta, expectations, events, missing, poll, ver>>
    /\ UNCHANGED <<seed, bus, raw>>

\* update_item of RunMeta (observedCount + 1) for the first event of the
\* expectation; a failure is logged. Then the return.
CountOf(c, cn) ==
    /\ c.pc = "appended"
    /\ \E written \in BOOLEAN :
         /\ meta' = IF written THEN [meta EXCEPT !.observedCount = @ + 1]
                    ELSE meta
         /\ hist' = [hist EXCEPT !.storeFailed = @ \/ ~written]
    /\ cn = [c EXCEPT !.pc = "returned",
                      !.result = ColResult(FALSE, TRUE, "none")]
    /\ UNCHANGED <<now, expectations, events, missing, poll, ver>>
    /\ UNCHANGED <<seed, bus, items, raw>>

\* The steps of the Collector invocation col.
CollectBegin == BeginOf(col, col', Deliveries) /\ UNCHANGED col2

CollectArchive == ArchiveOf(col, col') /\ UNCHANGED col2

CollectFind == FindOf(col, col') /\ UNCHANGED col2

CollectAppend == AppendOf(col, col') /\ UNCHANGED col2

CollectCount == CountOf(col, col') /\ UNCHANGED col2

\* The ids the bus gives the entries it accepted, in order.
BusIds == <<"s1", "s2">>

\* The envelope the bus delivers for the n-th entry it accepted.
Delivered(entry, n) ==
    Obj(("id" :> Str(BusIds[n])) @@ ("source" :> entry.Source)
        @@ ("detail-type" :> entry.DetailType) @@ ("detail" :> entry.Detail))

\* The events the Seeder has published so far, as the rule delivers them.
PublishedDeliveries == {Delivered(bus[n], n) : n \in 1..Len(bus)}

\* The Collector invocation col begins for an event the Seeder published.
CollectPublished == BeginOf(col, col', PublishedDeliveries) /\ UNCHANGED col2

\* The steps of the Collector invocation col2, in flight at the same time.
ConcurrentBegin == BeginOf(col2, col2', Deliveries) /\ UNCHANGED col

ConcurrentArchive == ArchiveOf(col2, col2') /\ UNCHANGED col

ConcurrentFind == FindOf(col2, col2') /\ UNCHANGED col

ConcurrentAppend == AppendOf(col2, col2') /\ UNCHANGED col

ConcurrentCount == CountOf(col2, col2') /\ UNCHANGED col

CollectStep ==
    \/ CollectBegin
    \/ CollectArchive
    \/ CollectFind
    \/ CollectAppend
    \/ CollectCount

PollStep ==
    \/ \E p \in Pollers : StatusLoad(p)
    \/ \E p \in Pollers : StatusObserve(p)
    \/ \E p \in Pollers : StatusCommit(p)

VerifyStep ==
    \/ VerifyBegin
    \/ VerifyExpectation
    \/ VerifyRescan
    \/ VerifyFinish

Environment ==
    \/ Tick
    \/ PutRunMeta
    \/ PutObservation

Next ==
    \/ Environment
    \/ PollStep
    \/ VerifyStep

\* Every interleaving of the invocations' Store reads and writes.
Spec == Init /\ [][Next]_vars

\* A status invocation is in flight.
PollBusy == \E p \in Pollers : poll[p].pc # "idle"

\* A verify invocation is in flight.
VerBusy == ver.pc \in {"matching", "judging"}

\* Verify interleaves with arrivals, the clock and whole status invocations:
\* a status invocation, once begun, runs to its return.
NextVerify ==
    \/ ~PollBusy /\ Tick
    \/ ~PollBusy /\ PutRunMeta
    \/ ~PollBusy /\ PutObservation
    \/ PollStep
    \/ ~PollBusy /\ VerifyBegin
    \/ ~PollBusy /\ VerifyExpectation
    \/ ~PollBusy /\ VerifyRescan
    \/ ~PollBusy /\ VerifyFinish

SpecVerify == Init /\ [][NextVerify]_vars

\* Status invocations interleave with arrivals, the clock and whole verify
\* invocations: a verify invocation, once begun, runs to its return.
NextStatus ==
    \/ ~VerBusy /\ Tick
    \/ ~VerBusy /\ PutRunMeta
    \/ ~VerBusy /\ PutObservation
    \/ ~VerBusy /\ (\E p \in Pollers : StatusLoad(p))
    \/ ~VerBusy /\ (\E p \in Pollers : StatusObserve(p))
    \/ ~VerBusy /\ (\E p \in Pollers : StatusCommit(p))
    \/ VerifyStep

SpecStatus == Init /\ [][NextStatus]_vars

\* The polling loop alone, with the scheduling the driver gives it: the clock
\* advances and an enabled step of a status invocation is eventually taken.
NextPolling ==
    \/ Environment
    \/ PollStep

SpecPolling ==
    /\ Init
    /\ [][NextPolling]_vars
    /\ WF_vars(Tick)
    /\ WF_vars(PollStep)

\* Two status invocations interleave at every Store read and write, with
\* arrivals and the clock; no verify runs.
NextTwoPolls ==
    \/ Tick
    \/ PutRunMeta
    \/ PutObservation
    \/ \E p \in ConcurrentPollers : StatusLoad(p)
    \/ \E p \in ConcurrentPollers : StatusObserve(p)
    \/ \E p \in ConcurrentPollers : StatusCommit(p)

SpecTwoPolls == Init /\ [][NextTwoPolls]_vars

\* One seed invocation, and status polls of its run (no other writer puts
\* the run's RunMeta).
NextSeed ==
    \/ SeedLoad
    \/ SeedPublish
    \/ SeedWriteExpectations
    \/ SeedFinish
    \/ \E p \in Pollers : StatusLoad(p)

SpecSeed == Init /\ [][NextSeed]_vars

\* Collector invocations, one at a time, for a run whose expectation rows
\* the Seeder writes and whose RunMeta is put.
NextCollect ==
    \/ PutRunMeta
    \/ SeedLoad
    \/ SeedPublish
    \/ SeedWriteExpectations
    \/ SeedFinish
    \/ CollectBegin
    \/ CollectArchive
    \/ CollectFind
    \/ CollectAppend
    \/ CollectCount

SpecCollect == Init /\ [][NextCollect]_vars

\* The driver's protocol with calls that may raise: status polls one at a
\* time until one returns ready or timeout, then one verify invocation.
Polling == ver.pc = "idle" /\ ~PollBusy

NextFaults ==
    \/ Polling /\ Tick
    \/ Polling /\ PutRunMeta
    \/ Polling /\ PutObservation
    \/ Polling /\ (\E p \in Pollers : StatusLoad(p))
    \/ \E p \in Pollers : StatusObserve(p)
    \/ \E p \in Pollers : StatusObserveUnread(p)
    \/ \E p \in Pollers : StatusCommit(p)
    \/ \E p \in Pollers : StatusCommitUnwritten(p)
    \/ Polling /\ VerifyBegin
    \/ VerifyExpectation
    \/ VerifyExpectationUnwritten
    \/ VerifyRescan
    \/ VerifyRescanUnwritten
    \/ VerifyFinish
    \/ VerifyFinishUnwritten

SpecFaults == Init /\ [][NextFaults]_vars

\* The statuses after which the run takes no more events.
TerminalStatuses == {"ready", "timeout", "passed", "failed"}

\* Late deliveries: the Seeder has ended and RunMeta is put, status polls run
\* one at a time as the clock advances, and the Collector is invoked for
\* events that arrive once RunMeta.status is terminal.
NextLate ==
    \/ SeedLoad
    \/ SeedPublish
    \/ SeedWriteExpectations
    \/ SeedFinish
    \/ seed.pc \in {"raised", "returned"} /\ PutRunMeta
    \/ col.pc \in {"idle", "returned"} /\ ~PollBusy /\ Tick
    \/ col.pc \in {"idle", "returned"} /\ (\E p \in Pollers : StatusLoad(p))
    \/ \E p \in Pollers : StatusObserve(p)
    \/ \E p \in Pollers : StatusCommit(p)
    \/ ~PollBusy /\ meta.status \in TerminalStatuses /\ CollectBegin
    \/ CollectArchive
    \/ CollectFind
    \/ CollectAppend
    \/ CollectCount

SpecLate == Init /\ [][NextLate]_vars

\* No invocation of the Verifier or the Collector is in flight.
Quiet == ~PollBusy /\ ~VerBusy /\ col.pc \in {"idle", "returned"}

\* A run end to end, one invocation at a time: the Seeder, the RunMeta row,
\* the Collector for each delivery, status polls as the clock advances, one
\* verify invocation, and the Collector again for late deliveries.
NextRun ==
    \/ SeedLoad
    \/ SeedPublish
    \/ SeedWriteExpectations
    \/ SeedFinish
    \/ seed.pc \in {"raised", "returned"} /\ PutRunMeta
    \/ Quiet /\ Tick
    \/ Quiet /\ meta.exists /\ CollectBegin
    \/ CollectArchive
    \/ CollectFind
    \/ CollectAppend
    \/ CollectCount
    \/ Quiet /\ (\E p \in Pollers : StatusLoad(p))
    \/ \E p \in Pollers : StatusObserve(p)
    \/ \E p \in Pollers : StatusCommit(p)
    \/ Quiet /\ ver.pc = "idle" /\ VerifyBegin
    \/ VerifyExpectation
    \/ VerifyRescan
    \/ VerifyFinish

SpecRun == Init /\ [][NextRun]_vars

\* The Observation row of one arrival, as PutObservation writes it.
ObservationRow(a) ==
    [detailType |-> DictGet(a.body, "detail-type"),
     source |-> DictGet(a.body, "source"),
     rawS3Key |-> a.archived,
     body |-> a.body,
     status |-> "new",
     expectedOrder |-> -1]

\* The arrival orders: every sequence of at most MaxEvents arrivals.
ArrivalOrders == UNION {[1..n -> Arrivals] : n \in 0..MaxEvents}

\* The scenarios, and one whose two expectations differ in a match field
\* only.
OrderScenarios ==
    Scenarios \cup
        { << Expectation("svc.a", "Started", "J1", <<JobIdPath>>),
             Expectation("svc.a", "Started", "J2", <<JobIdPath>>) >> }

\* The run when the driver invokes verify: the events have arrived in some
\* order and a status poll has returned ready (enough rows for a non-empty
\* expectation list, before timeoutAt) or timeout (at timeoutAt).
InitOrder ==
    /\ expectations \in OrderScenarios
    /\ \E arrived \in ArrivalOrders :
         events = [k \in 1..Len(arrived) |-> ObservationRow(arrived[k])]
    /\ \E status \in {"ready", "timeout"} :
         /\ status = "ready" =>
               AllObserved(Len(events), Len(expectations))
         /\ now = IF status = "timeout" THEN TimeoutMinutes ELSE 0
         /\ meta = [exists |-> TRUE, status |-> status,
                    timeoutAt |-> ZuluTimeoutAt(0), observedCount |-> 0,
                    serviceName |-> "all"]
         /\ hist = [released |-> TRUE, timedOut |-> status = "timeout",
                    bothSampled |-> FALSE, storeFailed |-> FALSE,
                    last |-> NoVerdict]
    /\ missing = {}
    /\ poll = [p \in ConcurrentPollers |-> PollIdle]
    /\ ver = VerIdle
    /\ seed = SeedIdle
    /\ bus = <<>>
    /\ items = <<>>
    /\ col = ColIdle
    /\ raw = 0
    /\ col2 = ColIdle

\* Verify invocations on the rows that have arrived.
NextOrder ==
    \/ VerifyBegin
    \/ VerifyExpectation
    \/ VerifyRescan
    \/ VerifyFinish

SpecOrder == InitOrder /\ [][NextOrder]_vars

\* The Collector is invoked for the events of the bus while the seed
\* invocation goes on; the RunMeta row is put once the seed invocation ended.
NextPublished ==
    \/ SeedLoad
    \/ SeedPublish
    \/ SeedWriteExpectations
    \/ SeedFinish
    \/ seed.pc \in {"raised", "returned"} /\ PutRunMeta
    \/ CollectPublished
    \/ CollectArchive
    \/ CollectFind
    \/ CollectAppend
    \/ CollectCount

SpecPublished == Init /\ [][NextPublished]_vars

\* Two expectations that name their detail type under "detailType": both
\* "Started", or one "Started" and one "Completed".
CollectorScenarios ==
    { << ExpectationWithDetailType("svc.a", "Started", "J1", <<JobIdPath>>),
         ExpectationWithDetailType("svc.a", "Started", "J2", <<JobIdPath>>) >>,
      << ExpectationWithDetailType("svc.a", "Started", "J1", <<JobIdPath>>),
         ExpectationWithDetailType("svc.a", "Completed", "J1", <<JobIdPath>>) >> }

\* The seed invocation after it wrote the expectation rows of the "all"
\* scenario (no events to publish) and ended at the RunMeta step.
SeedRaised ==
    [SeedIdle EXCEPT
        !.pc = "raised",
        !.requested = "all",
        !.effective = "all",
        !.files = FilesRead([folder \in {"svca", "all"} |->
                                [file \in ScenarioFileNames |-> "list"]], "all"),
        !.error = "AttributeError"]

\* The run when its events start to arrive: the expectation rows are written
\* and the RunMeta row is put, with status running and observedCount 0.
InitCollectors ==
    /\ expectations \in CollectorScenarios
    /\ items = ExpectationItems(expectations)
    /\ seed = SeedRaised
    /\ now = 0
    /\ meta = [exists |-> TRUE, status |-> "running",
               timeoutAt |-> ZuluTimeoutAt(0), observedCount |-> 0,
               serviceName |-> "all"]
    /\ events = <<>>
    /\ missing = {}
    /\ poll = [p \in ConcurrentPollers |-> PollIdle]
    /\ ver = VerIdle
    /\ hist = [released |-> FALSE, timedOut |-> FALSE, bothSampled |-> FALSE,
               storeFailed |-> FALSE, last |-> NoVerdict]
    /\ bus = <<>>
    /\ col = ColIdle
    /\ raw = 0
    /\ col2 = ColIdle

\* Two Collector invocations in flight at once, interleaved at every Store
\* and Archive call.
NextCollectors ==
    \/ CollectBegin
    \/ CollectArchive
    \/ CollectFind
    \/ CollectAppend
    \/ CollectCount
    \/ ConcurrentBegin
    \/ ConcurrentArchive
    \/ ConcurrentFind
    \/ ConcurrentAppend
    \/ ConcurrentCount

SpecCollectors == InitCollectors /\ [][NextCollectors]_vars

\* An expectation object that lacks one key.
ExpectationWithout(key, source, detailType, jobId, fields) ==
    LET f == Envelope(source, detailType, jobId).f
    IN  [body |-> Obj([name \in DOMAIN f \ {key} |-> f[name]]), fields |-> fields]

\* Expectation lists that hold an expectation without source or without
\* detail-type, alone or after a complete one.
IncompleteScenarios ==
    { << ExpectationWithout("source", "svc.a", "Started", "J1", <<JobIdPath>>) >>,
      << ExpectationWithout("detail-type", "svc.a", "Started", "J1", <<JobIdPath>>) >>,
      << Expectation("svc.a", "Started", "J1", <<JobIdPath>>),
         ExpectationWithout("source", "svc.a", "Completed", "J1", <<JobIdPath>>) >> }

\* The run when the driver invokes verify on such a list: the events have
\* arrived and a status poll has returned ready or timeout.
InitIncomplete ==
    /\ expectations \in IncompleteScenarios
    /\ \E arrived \in ArrivalOrders :
         events = [k \in 1..Len(arrived) |-> ObservationRow(arrived[k])]
    /\ \E status \in {"ready", "timeout"} :
         /\ status = "ready" =>
               AllObserved(Len(events), Len(expectations))
         /\ now = IF status = "timeout" THEN TimeoutMinutes ELSE 0
         /\ meta = [exists |-> TRUE, status |-> status,
                    timeoutAt |-> ZuluTimeoutAt(0), observedCount |-> 0,
                    serviceName |-> "all"]
         /\ hist = [released |-> TRUE, timedOut |-> status = "timeout",
                    bothSampled |-> FALSE, storeFailed |-> FALSE,
                    last |-> NoVerdict]
    /\ missing = {}
    /\ poll = [p \in ConcurrentPollers |-> PollIdle]
    /\ ver = VerIdle
    /\ seed = SeedIdle
    /\ bus = <<>>
    /\ items = <<>>
    /\ col = ColIdle
    /\ raw = 0
    /\ col2 = ColIdle

\* Verify invocations on such a list.
SpecIncomplete == InitIncomplete /\ [][NextOrder]_vars

\* Bodies of one source and detail-type that differ under "detail" only:
\* no such key, a string, a mapping without jobId, a mapping with jobId (a
\* string, or null), a mapping with jobId and step.
MatchBodies ==
    { Obj(("source" :> Str("svc.a")) @@ ("detail-type" :> Str("Started")) @@ d) :
        d \in { "trace" :> Str("t"),
                "detail" :> Str("J1"),
                "detail" :> Obj("trace" :> Str("t")),
                "detail" :> Obj("jobId" :> Str("J1")),
                "detail" :> Obj("jobId" :> Str("J2")),
                "detail" :> Obj("jobId" :> Null),
                "detail" :> Obj(("jobId" :> Str("J1")) @@ ("step" :> Str("s1"))) } }

StepPath == <<"detail", "step">>

\* The dot-paths "detail.jobId", "detail.step", "detail", "detail.jobId.id".
MatchPaths == {JobIdPath, StepPath, <<"detail">>, <<"detail", "jobId", "id">>}

\* The __match.fields lists: one path, or "detail.jobId" and "detail.step".
FieldLists == {<<path>> : path \in MatchPaths} \cup {<<JobIdPath, StepPath>>}

\* The run when the driver invokes verify on one expectation and one archived
\* event of its source and detail-type, after a status poll returned ready.
InitMatch ==
    /\ \E expected \in MatchBodies, match_fields \in FieldLists :
         expectations = << [body |-> expected, fields |-> match_fields] >>
    /\ \E observed \in MatchBodies :
         events = << ObservationRow([body |-> observed, archived |-> TRUE]) >>
    /\ now = 0
    /\ meta = [exists |-> TRUE, status |-> "ready",
               timeoutAt |-> ZuluTimeoutAt(0), observedCount |-> 0,
               serviceName |-> "all"]
    /\ hist = [released |-> TRUE, timedOut |-> FALSE, bothSampled |-> FALSE,
               storeFailed |-> FALSE, last |-> NoVerdict]
    /\ missing = {}
    /\ poll = [p \in ConcurrentPollers |-> PollIdle]
    /\ ver = VerIdle
    /\ seed = SeedIdle
    /\ bus = <<>>
    /\ items = <<>>
    /\ col = ColIdle
    /\ raw = 0
    /\ col2 = ColIdle

\* Verify invocations on that expectation and that event.
SpecMatch == InitMatch /\ [][NextOrder]_vars

\* ------------------------------------------------------------- properties
\* A status invocation returns in this step.
Returns(p) == poll[p].pc = "decided" /\ poll'[p].pc = "idle"

\* The verify invocation returns in this step.
VerifyReturns == ver.pc = "judging" /\ ver'.pc = "done"

\* Some row is marked matched with recorded expectation index i.
MatchedAt(i) ==
    \E k \in EventRows :
        events[k].status = "matched" /\ events[k].expectedOrder = i

\* C1: RunMeta.status never moves backward: once it is passed or failed, no
\* step takes it back to running, ready or timeout.
C1_NoBackwardStatus ==
    [][meta.status \in {"passed", "failed"}
          => meta'.status \notin {"running", "ready", "timeout"}]_vars

\* C2: after verify returns, every expectation index i in [0, N) has exactly
\* one of: a row marked matched with recorded index i, a MissingRecord at i.
C2_ExactlyOnePerIndex ==
    ver.pc = "done" =>
        \A i \in 0..(Len(expectations) - 1) :
            /\ MatchedAt(i) \/ i \in missing
            /\ ~(MatchedAt(i) /\ i \in missing)

\* C3: within one verify pass no Observation is matched to two expectations:
\* the keys the pass matched are pairwise different.
C3_OneToOne ==
    ver.pc = "done" =>
        \A i, j \in 1..Len(ver.matched_event_keys) :
            i # j => ver.matched_event_keys[i] # ver.matched_event_keys[j]

RepeatsLast ==
    /\ hist.last.has
    /\ hist.last.nobs = Len(events)
    /\ ver.started_with = Len(events)

\* C6: a second verify on the same Observations and expectations returns the
\* verdict of the first and leaves RunMeta.status, the rows' marks and the
\* MissingRecords as the first left them.
C6_Idempotent ==
    [][VerifyReturns /\ RepeatsLast =>
          /\ ver'.run_status = hist.last.run_status
          /\ ver'.matched_count = hist.last.matched_count
          /\ ver'.missing_count = hist.last.missing_count
          /\ ver'.unexpected_count = hist.last.unexpected_count
          /\ meta'.status = hist.last.run_status
          /\ RowMarks = ver.marks_before
          /\ missing = ver.missing_before]_vars

\* C7: timeout dominates: a verify begun after a status poll marked the run
\* timeout returns failed (and so writes failed, never passed).
C7_TimeoutDominates ==
    ver.pc = "done" /\ ver.after_timeout => ver.run_status = "failed"

\* C8: a status poll that samples now >= timeoutAt returns timeout and leaves
\* RunMeta.status timeout, whatever the number of Observations.
C8_TimeoutWins ==
    [][\A p \in Pollers :
          Returns(p) /\ poll[p].sampled >= meta.timeoutAt.t =>
              /\ poll[p].status = "timeout"
              /\ meta.status = poll[p].current_status
                    => meta'.status = "timeout"]_vars

SeederWroteMeta ==
    meta.exists /\ meta.timeoutAt.suffix = SeederTimeoutAt(0).suffix

\* C10: a run whose RunMeta the Seeder wrote eventually leaves status
\* running, as long as status polls keep being issued and the clock advances.
C10_LeavesRunning ==
    [](SeederWroteMeta => <>(meta.status # "running"))

\* C11: when two concurrent status polls have both sampled now >= timeoutAt,
\* both return timeout, and once both have returned RunMeta.status is
\* timeout, whatever order their reads and writes took.
C11_ConcurrentTimeout ==
    /\ \A p, q \in ConcurrentPollers :
          p # q /\ SampledAfterTimeout(p) /\ SampledAfterTimeout(q)
             => poll[p].status = "timeout" /\ poll[q].status = "timeout"
    /\ hist.bothSampled /\ (\A p \in ConcurrentPollers : poll[p].pc = "idle")
          => meta.status = "timeout"

\* The seed invocation has ended, by a return or by an exception.
SeedEnded == seed.pc \in {"raised", "returned"}

\* A file the load read is absent from this folder of the Archive.
AbsentIn(folder) ==
    /\ seed.pc # "idle"
    /\ \E file \in ScenarioFileNames : seed.files[folder][file] = "absent"

\* A file the load read holds JSON that is no array.
NotArrayRead ==
    /\ seed.pc # "idle"
    /\ \E folder \in {"svca", "all"}, file \in ScenarioFileNames :
          seed.files[folder][file] = "notarray"

\* The scenario cannot be loaded.
ScenarioUnloadable ==
    NotArrayRead \/ (AbsentIn(seed.requested) /\ AbsentIn("all"))

\* C15: a seed invocation whose scenario loaded and whose events were all
\* published ends by returning the run's identifier, serviceName, startedAt
\* and timeoutAt, having written the RunMeta row with status running,
\* observedCount 0 and timeoutAt 15 minutes after startedAt.
C15_SeedWritesRunMeta ==
    SeedEnded /\ seed.effective # "none" /\ seed.failed_at = 0 =>
        /\ seed.pc = "returned"
        /\ meta.exists
        /\ meta.status = "running"
        /\ meta.observedCount = 0
        /\ seed.result # Null
        /\ meta.timeoutAt.t = seed.result.startedAt.t + TimeoutMinutes
        /\ seed.result.timeoutAt = meta.timeoutAt
        /\ seed.result.serviceName = meta.serviceName

\* C16: if the scenario cannot be loaded (a file absent in the requested
\* folder and in "all", or a file that is no JSON array), the seed invocation
\* fails with nothing published and no row written.
C16_LoadFailsClean ==
    ScenarioUnloadable =>
        /\ seed.pc = "raised"
        /\ seed.published_count = 0
        /\ bus = <<>>
        /\ items = <<>>
        /\ ~meta.exists

\* C16 witness: a seed for service svca has failed after finding a file
\* absent in svca and in "all".
C16_Witness ==
    /\ seed.pc = "raised"
    /\ seed.requested = "svca"
    /\ AbsentIn("svca")
    /\ AbsentIn("all")

\* C17: once publishing the k-th event has failed, the seed invocation has
\* failed with exactly the k-1 earlier events published, nothing is
\* published afterwards, and a status poll begun afterwards finds no RunMeta
\* and returns unknown, or finds a RunMeta with status running.
C17_PublishFailureIsFatal ==
    [][/\ seed'.failed_at > 0 =>
             /\ seed'.pc = "raised"
             /\ seed'.published_count = seed'.failed_at - 1
             /\ Len(bus') = seed'.failed_at - 1
             /\ meta'.exists => meta'.status = "running"
       /\ seed.failed_at > 0 => bus' = bus
       /\ \A p \in Pollers :
             seed.failed_at > 0 /\ poll[p].pc = "idle" /\ poll'[p] # poll[p]
                => \/ ~meta.exists /\ poll'[p].status = "unknown"
                   \/ meta.exists /\ meta.status = "running"]_vars

\* C17 witness: publishing the second event failed after the first was
\* published, and a status poll has returned unknown.
C17_Witness ==
    /\ seed.failed_at = 2
    /\ seed.pc = "raised"
    /\ Len(bus) = 1
    /\ \E p \in Pollers : poll[p].status = "unknown"

\* C18: the requested service name is the lowercased input, or "all" when
\* none is given; when its files are absent and the "all" scenario loads, the
\* Seeder uses "all" and a seed that published everything has recorded
\* serviceName "all" in RunMeta; when "all" is absent too the seed fails.
C18_ServiceNameFallback ==
    seed.pc # "idle" =>
        /\ seed.requested = IF seed.raw_service_name = Null THEN "all"
                            ELSE Lower(seed.raw_service_name.v)
        /\ AbsentIn(seed.requested) /\ LoadPair(seed.files, "all") = "list" =>
              /\ seed.effective = "all"
              /\ SeedEnded /\ seed.failed_at = 0 =>
                    meta.exists /\ meta.serviceName = "all"
        /\ AbsentIn(seed.requested) /\ AbsentIn("all") => seed.pc = "raised"

\* An invocation of the Collector ends in this step.
CollectReturns == col'.pc \in {"returned", "raised"} /\ col' # col

\* The event's detail carries a testRunId.
CarriesTestRunId(event) ==
    Truthy(DictGet(DictGet(event, "detail"), "testRunId"))

\* C12: for every bus event whose detail carries the testRunId of a run whose
\* RunMeta exists, the Collector invocation writes exactly one new Observation
\* row with status "new", and selects no expectation.
C12_CollectorArchivesOnly ==
    [][CollectReturns /\ CarriesTestRunId(col'.event) /\ meta.exists =>
          /\ Len(events') = col'.rows_before + 1
          /\ events'[Len(events')].status = "new"
          /\ col'.chosen = 0]_vars

\* An invocation of the Collector begins in this step, for this event.
CollectBegins(event) ==
    /\ col.pc \in {"idle", "returned"}
    /\ col' # col
    /\ col'.event = event

\* C13: an event without testRunId, or whose run has no RunMeta, is ignored
\* without any write to the Store or the Archive, and the Collector ignores
\* no other event.
C13_IgnoredEvents ==
    [][\A event \in Deliveries :
         CollectBegins(event) =>
            LET unowned == ~CarriesTestRunId(event) \/ ~meta.exists
            IN  /\ unowned =>
                      /\ col'.pc = "returned" /\ col'.result.ignored
                      /\ UNCHANGED <<meta, events, items, missing, raw>>
                /\ col'.result.ignored => unowned]_vars

\* The ids of the events recorded in the expectation rows of the run.
RecordedEventIds ==
    UNION { { items[i].observedEvents[j].eventId :
                j \in 1..Len(items[i].observedEvents) } : i \in 1..Len(items) }

\* No invocation of the Collector is in flight.
CollectorQuiet == col.pc \in {"idle", "returned", "raised"}

\* C14: once every Collector invocation has finished, and no Store write
\* failed, RunMeta.observedCount is the number of distinct events recorded
\* for the run.
C14_ObservedCountExact ==
    meta.exists /\ CollectorQuiet /\ ~hist.storeFailed =>
        meta.observedCount = Len(events) + Cardinality(RecordedEventIds)

\* C19: when the Store write that records an observed event fails, the
\* Collector invocation raises.
C19_StoreFailureRaises ==
    [][col'.store_failed /\ ~col.store_failed => col'.pc = "raised"]_vars

\* The invocation that ends in this step archived nothing: its Archive write
\* failed.
ReturnsUnarchived ==
    /\ CollectReturns
    /\ col.pc \in {"archived", "found", "appended"}
    /\ ~col.s3_key

\* The Store holds a record of this event with a null archive key.
RecordedWithoutKey(event) ==
    \E i \in 1..Len(items') : \E j \in 1..Len(items'[i].observedEvents) :
        items'[i].observedEvents[j] = NewObserved(event, FALSE)

\* C20: when the Archive write fails and the Store write does not, the
\* invocation returns normally and the event is recorded in the Store with a
\* null archive key.
C20_ArchiveFailureNonFatal ==
    [][ReturnsUnarchived /\ ~col'.store_failed =>
          /\ col'.pc = "returned"
          /\ RecordedWithoutKey(col.event)]_vars

\* A status invocation begins in this step.
StatusBegins(p) == poll[p].pc = "idle" /\ poll'[p] # poll[p]

\* C22: a status poll of a run without RunMeta returns {status: "unknown"}
\* at once, writes nothing to the Store and creates no RunMeta.
C22_UnknownRunPoll ==
    [][\A p \in Pollers :
          StatusBegins(p) /\ ~meta.exists =>
              /\ poll'[p].pc = "idle"
              /\ poll'[p].status = "unknown"
              /\ ~meta'.exists
              /\ UNCHANGED <<meta, events, missing, items>>]_vars

\* C22 witness: a poll has returned unknown and the run has no RunMeta.
C22_Witness ==
    \E p \in Pollers :
        poll[p].pc = "idle" /\ poll[p].status = "unknown" /\ ~meta.exists

\* A verify invocation begins in this step.
VerifyBegins == ver.pc \in {"idle", "done", "raised"} /\ ver' # ver

\* C23: a verify invocation for a run without RunMeta returns
\* {status: "unknown"} instead of raising, and writes nothing to the Store.
C23_UnknownRunVerify ==
    [][VerifyBegins /\ ~meta.exists =>
          /\ ver'.pc = "done"
          /\ ver'.run_status = "unknown"
          /\ UNCHANGED <<meta, events, missing, items>>]_vars

\* C21: no I/O failure of a Verifier invocation is swallowed: when verify
\* returns runStatus v, RunMeta.status is v, every row it counted as matched
\* is marked matched and every row it counted as unexpected is marked
\* unexpected; when a status poll returns ready or timeout, the counts it
\* used came from reads that succeeded.
C21_NoSwallowedFailure ==
    [][/\ VerifyReturns =>
             /\ meta'.status = ver'.run_status
             /\ \A i \in 1..Len(ver.matched_event_keys) :
                   events'[ver.matched_event_keys[i]].status = "matched"
             /\ ver.unexpected_count =
                   Cardinality({k \in 1..ver.scanned :
                                   events'[k].status = "unexpected"})
        /\ \A p \in Pollers :
              Returns(p) /\ poll[p].status \in {"ready", "timeout"}
                 => ~poll[p].unread]_vars

\* C24: once RunMeta.status is terminal, no step of a Collector invocation
\* changes RunMeta (observedCount included) or any row of the run.
C24_TerminalFrame ==
    [][meta.status \in TerminalStatuses /\ col' # col =>
          UNCHANGED <<meta, events, missing, items>>]_vars

\* C25: for a run with zero expectations driven through the status/verify
\* protocol, verify returns passed when the run has no Observation and failed
\* when it has some.
C25_ZeroExpectations ==
    ver.pc = "done" /\ Len(expectations) = 0 /\ Len(events) = ver.started_with
        => ver.run_status = IF Len(events) = 0 THEN "passed" ELSE "failed"

\* How many times the Collector recorded the event with this id.
DeliveredCopies(id) ==
    Cardinality({ij \in (1..Len(items)) \X (1..MaxDeliveries) :
                    /\ ij[2] <= Len(items[ij[1]].observedEvents)
                    /\ items[ij[1]].observedEvents[ij[2]].eventId = Str(id)})

\* The rows with sk event#... whose status is unexpected after this step.
UnexpectedRows == {k \in EventRows : events'[k].status = "unexpected"}

\* C26: when the event e1, which matches an expectation, was delivered more
\* than once and nothing else was delivered, verify counts one unexpected
\* Observation per extra copy, leaves each extra copy with status unexpected,
\* and returns failed.
C26_DuplicateDeliveries ==
    [][/\ VerifyReturns
       /\ DeliveredCopies("e1") >= 2
       /\ DeliveredCopies("e1") = ObservedTotal(Len(items))
       => /\ ver'.unexpected_count = DeliveredCopies("e1") - 1
          /\ Cardinality(UnexpectedRows) = DeliveredCopies("e1") - 1
          /\ ver'.run_status = "failed"]_vars

\* The Collector has recorded exactly one event for each of the N > 0
\* expectations, the one that agrees with it (e1), and archived no other.
HappyDelivered ==
    /\ meta.exists
    /\ Len(items) > 0
    /\ Len(items) = Len(expectations)
    /\ \A i \in 1..Len(items) :
          /\ Len(items[i].observedEvents) = 1
          /\ items[i].observedEvents[1].eventId = Str("e1")
    /\ raw = Len(items)

\* C27: when the run exists and the Collector has received exactly one
\* agreeing event per expectation and no other, a status poll before
\* timeoutAt returns ready, and the verify that follows returns passed with
\* matchedCount N, missingCount 0 and unexpectedCount 0.
C27_HappyPath ==
    [][/\ \A p \in Pollers :
             Returns(p) /\ HappyDelivered /\ poll[p].sampled < meta.timeoutAt.t
                => poll[p].status = "ready"
       /\ VerifyReturns /\ HappyDelivered /\ ver.current_status = "ready" =>
             /\ ver'.run_status = "passed"
             /\ ver'.matched_count = Len(expectations)
             /\ ver'.missing_count = 0
             /\ ver'.unexpected_count = 0]_vars

\* The verify loop handles expectation idx in this step.
VerifyHandles(idx) ==
    ver.pc = "matching" /\ ver.idx = idx /\ ver'.idx = idx + 1

\* The rows with the expectation's source and detail-type.
CandidateRows(expected) ==
    {k \in EventRows :
        /\ events[k].source = DictGet(expected, "source")
        /\ events[k].detailType = DictGet(expected, "detail-type")}

\* The row agrees with the expectation at every declared match field (a row
\* without archived body has no values: null at every path).
AgreesAt(k, expected, match_fields) ==
    \A i \in 1..Len(match_fields) :
        _get_nested_value(expected, match_fields[i])
            = IF events[k].rawS3Key
              THEN _get_nested_value(events[k].body, match_fields[i])
              ELSE Null

\* C28: each expectation is matched to the first row, in sort-key order, with
\* its source and detail-type that agrees at every declared match field (the
\* first such row when it declares none), and to no later one.
C28_FirstCandidateWins ==
    [][\A idx \in 0..(Len(expectations) - 1) :
          VerifyHandles(idx) =>
             LET expected == expectations[idx + 1].body
                 match_fields == expectations[idx + 1].fields
                 agreeing == {k \in CandidateRows(expected) :
                                 AgreesAt(k, expected, match_fields)}
             IN  agreeing # {} =>
                    /\ ver'.matched_count = ver.matched_count + 1
                    /\ \A k \in agreeing :
                          ver'.matched_event_keys[Len(ver'.matched_event_keys)]
                              <= k]_vars

\* The statuses the Verifier gives an Observation.
VerifiedStatuses == {"matched", "unexpected"}

\* C29: whenever RunMeta.status is passed or failed, every Observation of
\* the run (each event# row, each event the Collector recorded) has status
\* matched or unexpected; and no step removes an Observation.
C29_TerminalObservations ==
    [][/\ meta'.status \in {"passed", "failed"} =>
             /\ \A k \in 1..Len(events') :
                   events'[k].status \in VerifiedStatuses
             /\ \A i \in 1..Len(items') :
                   \A j \in 1..Len(items'[i].observedEvents) :
                      LET observed == items'[i].observedEvents[j]
                      IN  /\ "status" \in DOMAIN observed
                          /\ observed["status"] \in VerifiedStatuses
       /\ Len(events') >= Len(events)
       /\ \A i \in 1..Len(items) :
             Len(items'[i].observedEvents) >= Len(items[i].observedEvents)]_vars

\* The declared match fields of expectation i.
FieldsOf(i) == {expectations[i].fields[n] : n \in 1..Len(expectations[i].fields)}

\* Expectations i and j differ in source, in detail-type, or in the value of
\* a match field both declare.
Distinguishable(i, j) ==
    LET a == expectations[i].body
        b == expectations[j].body
    IN  \/ DictGet(a, "source") # DictGet(b, "source")
        \/ DictGet(a, "detail-type") # DictGet(b, "detail-type")
        \/ \E path \in FieldsOf(i) \cap FieldsOf(j) :
              _get_nested_value(a, path) # _get_nested_value(b, path)

PairwiseDistinguishable ==
    \A i, j \in 1..Len(expectations) : i # j => Distinguishable(i, j)

\* The expectations for which some row, wherever it stands among the rows,
\* is a match.
Matchable ==
    {i \in 1..Len(expectations) :
        \E k \in EventRows :
            CandidateMatches(expectations[i].body, events[k],
                             expectations[i].fields)}

RECURSIVE PresentAt(_, _)
PresentAt(value, parts) ==
    \/ parts = <<>>
    \/ /\ IsDict(value)
       /\ Head(parts) \in DOMAIN value.f
       /\ PresentAt(value.f[Head(parts)], Tail(parts))

\* The value under a path whose keys are all there.
RECURSIVE ValueAt(_, _)
ValueAt(value, parts) ==
    IF parts = <<>> THEN value ELSE ValueAt(value.f[Head(parts)], Tail(parts))

\* The path leads to a value other than null.
HasValueAt(value, parts) == PresentAt(value, parts) /\ ValueAt(value, parts) # Null

\* C31 (as stated): the walk yields null for a path with a missing or
\* non-mapping intermediate; the event is matched exactly when, at every
\* match field, both sides lack the field or both have it with equal values:
\* a field present on one side only is a mismatch.
C31_DotPathMatch ==
    LET expected == expectations[1].body
        observed == events[1].body
        match_fields == expectations[1].fields
    IN  /\ \A path \in MatchPaths : \A value \in {expected, observed} :
              ~PresentAt(value, path) => _get_nested_value(value, path) = Null
        /\ ver.pc = "matching" /\ ver.idx = 1 =>
              (ver.matched_count = 1 <=>
                  \A i \in 1..Len(match_fields) :
                      IF PresentAt(expected, match_fields[i])
                         /\ PresentAt(observed, match_fields[i])
                      THEN ValueAt(expected, match_fields[i])
                               = ValueAt(observed, match_fields[i])
                      ELSE /\ ~PresentAt(expected, match_fields[i])
                           /\ ~PresentAt(observed, match_fields[i]))

\* C31 (amended): the walk yields the value under the path, and null for a
\* path with a missing or non-mapping intermediate; a field whose value is
\* null counts as lacking. The event is matched exactly when, at every match
\* field, both sides lack the field or both have it with equal values.
C31_DotPathMatchNullAsMissing ==
    LET expected == expectations[1].body
        observed == events[1].body
        match_fields == expectations[1].fields
    IN  /\ \A path \in MatchPaths : \A value \in {expected, observed} :
              _get_nested_value(value, path) =
                  IF PresentAt(value, path) THEN ValueAt(value, path) ELSE Null
        /\ ver.pc = "matching" /\ ver.idx = 1 =>
              (ver.matched_count = 1 <=>
                  \A i \in 1..Len(match_fields) :
                      IF HasValueAt(expected, match_fields[i])
                         /\ HasValueAt(observed, match_fields[i])
                      THEN ValueAt(expected, match_fields[i])
                               = ValueAt(observed, match_fields[i])
                      ELSE /\ ~HasValueAt(expected, match_fields[i])
                           /\ ~HasValueAt(observed, match_fields[i]))

\* C31 witness: the expectation and the event both lack "detail.step" and
\* agree on "detail.jobId", and the loop matched the event on both fields.
C31_Witness ==
    /\ ver.pc = "matching"
    /\ ver.idx = 1
    /\ expectations[1].fields = <<JobIdPath, StepPath>>
    /\ ~PresentAt(expectations[1].body, StepPath)
    /\ ~PresentAt(events[1].body, StepPath)
    /\ HasValueAt(expectations[1].body, JobIdPath)
    /\ ver.matched_count = 1

\* How many observed events of this detail type the rows hold.
RECURSIVE ObservedOfType(_, _)
ObservedOfType(k, detail_type) ==
    IF k = 0 THEN 0
    ELSE Cardinality({j \in 1..Len(items[k].observedEvents) :
                         items[k].observedEvents[j].detailType = detail_type})
         + ObservedOfType(k - 1, detail_type)

\* C32: once the Collector invocations have finished, with no failed Store
\* write, observedCount is the number of expectation rows that hold an
\* observed event, and when as many events of one detail type were recorded as
\* there are expectations of that type, each of those expectations holds one.
C32_ConcurrentCollectors ==
    (/\ col.pc \in {"idle", "returned"}
     /\ col2.pc \in {"idle", "returned"}
     /\ ~hist.storeFailed) =>
        /\ meta.observedCount =
              Cardinality({i \in 1..Len(items) : items[i].observedEvents # <<>>})
        /\ \A detail_type \in {Str("Started"), Str("Completed")} :
              LET of_type == {i \in 1..Len(items) :
                                 ~DetailTypeDiffers(items[i], detail_type)}
              IN  ObservedOfType(Len(items), detail_type) = Cardinality(of_type)
                     => \A i \in of_type : Len(items[i].observedEvents) = 1

\* C33: a Collector invocation for an event the Seeder published is never
\* ignored for lack of RunMeta, whatever steps the seed invocation has left,
\* and when it returns with no failed Store write the event is recorded.
C33_NoSeedEventLost ==
    [][/\ \A event \in PublishedDeliveries :
             CollectBegins(event) => col'.result.reason # "no_run_meta"
       /\ CollectReturns /\ ~col'.store_failed /\ ~col'.result.ignored =>
             \E i \in 1..Len(items') : \E j \in 1..Len(items'[i].observedEvents) :
                 items'[i].observedEvents[j].eventId = DictGet(col'.event, "id")]_vars

\* C34: once RunMeta.status is timeout no step of a status poll makes it
\* ready, however the reads and writes of two concurrent polls interleave.
C34_TimeoutNeverReady ==
    [][meta.status = "timeout" => meta'.status # "ready"]_vars

\* C35: the verdict verify returns accounts for every expectation:
\* matchedCount + missingCount = totalExpected, also for a list that holds
\* expectations without source or detail-type.
C35_EveryExpectationCounted ==
    ver.pc = "done" => ver.matched_count + ver.missing_count = Len(expectations)

\* C36: the verdict verify returns accounts for every Observation once:
\* matchedCount + unexpectedCount is the number of rows the final re-scan
\* found, and matchedCount is the number of rows left with status matched.
C36_EveryObservationCounted ==
    ver.pc = "done" =>
        /\ ver.matched_count + ver.unexpected_count = ver.scanned
        /\ ver.matched_count =
              Cardinality({k \in EventRows : events[k].status = "matched"})
====
